---- MODULE Spec2Model ----
(***************************************************************************)
(* A model of PopulationSimulation.py: the agent table, the snapshot file, *)
(* the passes of one simulation step and the driver loop of main().        *)
(*                                                                         *)
(* The table is a sequence of person records (the list of dictionaries).   *)
(* The lists the driver keeps between passes (men, women, pairs,           *)
(* all_couples) hold references to those dictionaries; they are modelled   *)
(* as positions in the table.  The snapshot file is a sequence of lines,   *)
(* each line the sequence of its comma-separated fields, each field the    *)
(* sequence of its characters.  A random.random() draw is an integer       *)
(* number of thousandths, 0..999.                                          *)
(***************************************************************************)
EXTENDS Integers, Sequences, FiniteSets, TLC

VARIABLES
    pc,           \* position of the process in main()
    population,   \* the in-memory table
    file,         \* FILE_PATH on disk: [exists, lines]
    year,         \* main's year counter
    men,          \* singleMen  (positions in population)
    women,        \* singleWomen (positions in population)
    pairs,        \* list of <<man, woman>> positions
    all_couples,  \* list of <<p, partner>> positions
    ret,          \* where main continues after save_population returns
    snapshot      \* the lines of the last snapshot whose save completed

vars == <<pc, population, file, year, men, women, pairs, all_couples, ret, snapshot>>

-----------------------------------------------------------------------------
(* Bounds of the model.                                                    *)

\* founders of each sex (range(10) in the program)
FoundersPerSex == 1

\* simulation steps explored in one run of the process
MaxSteps == 3

\* largest table a step may start from
MaxAgents == 3

(* Program constants.                                                      *)
AgeMin == 18
AgeMax == 40
HealthMin == 70
StepYears == 5
NoPartner == -1

\* ages a founder is given: both ends of randint(18, 40); 40 is a band boundary
FounderAges == {AgeMin, AgeMax}

\* health scores drawn by randint(70, 100): the lowest; no rule reads health
HealthDraws == {HealthMin}

\* random.random() in thousandths: below every threshold, between the
\* thresholds 0.02 and 0.05, above every threshold
DrawValues == {0, 30, 999}

-----------------------------------------------------------------------------
(* Text of the snapshot file.                                              *)

Digits == <<"0", "1", "2", "3", "4", "5", "6", "7", "8", "9">>

DigitChars == {Digits[i] : i \in 1..10}

DigitVal(c) == (CHOOSE i \in 1..10 : Digits[i] = c) - 1

RECURSIVE NatToText(_)
NatToText(n) ==
    IF n < 10 THEN <<Digits[n + 1]>>
    ELSE NatToText(n \div 10) \o <<Digits[(n % 10) + 1]>>

\* str(n) of an int, as the f-string of save_population formats it
IntToText(n) == IF n < 0 THEN <<"-">> \o NatToText(-n) ELSE NatToText(n)

\* the f-string of a str value: its characters
StrToText(s) == <<s>>

RECURSIVE TextToStr(_)
TextToStr(t) == IF t = <<>> THEN "" ELSE t[1] \o TextToStr(Tail(t))

RECURSIVE StripLeft(_)
StripLeft(t) == IF t # <<>> /\ t[1] = " " THEN StripLeft(Tail(t)) ELSE t

RECURSIVE StripRight(_)
StripRight(t) ==
    IF t # <<>> /\ t[Len(t)] = " " THEN StripRight(SubSeq(t, 1, Len(t) - 1)) ELSE t

Strip(t) == StripRight(StripLeft(t))

RECURSIVE DigitsToNat(_)
DigitsToNat(t) ==
    IF t = <<>> THEN 0
    ELSE 10 * DigitsToNat(SubSeq(t, 1, Len(t) - 1)) + DigitVal(t[Len(t)])

\* int(text): surrounding blanks dropped, an optional sign, then digits;
\* anything else raises ValueError (ok = FALSE)
ParseInt(t) ==
    LET s    == Strip(t)
        neg  == s # <<>> /\ s[1] = "-"
        body == IF s # <<>> /\ s[1] \in {"-", "+"} THEN Tail(s) ELSE s
    IN  IF body = <<>> \/ \E i \in 1..Len(body) : body[i] \notin DigitChars
        THEN [ok |-> FALSE, val |-> 0]
        ELSE [ok |-> TRUE,
              val |-> IF neg THEN 0 - DigitsToNat(body) ELSE DigitsToNat(body)]

-----------------------------------------------------------------------------
(* The snapshot store.                                                     *)

\* the header line; each field name is written as one token, nothing reads
\* them
Header == << <<"id">>, <<"sex">>, <<"age">>, <<"alive">>, <<"health">>,
             <<"fertility">>, <<"partner_id">>, <<"children_count">> >>

NoFile == [exists |-> FALSE, lines |-> <<>>]

\* FormatLine with alive and fertility written in each other's place
FormatLineSwapped(p) ==
    << IntToText(p.id), StrToText(p.sex), IntToText(p.age), IntToText(p.fertility),
       IntToText(p.health), IntToText(p.alive), IntToText(p.partner_id),
       IntToText(p.children_count) >>

\* the line save_population writes for one person
FormatLine(p) ==
    << IntToText(p.id), StrToText(p.sex), IntToText(p.age), IntToText(p.alive),
       IntToText(p.health), IntToText(p.fertility), IntToText(p.partner_id),
       IntToText(p.children_count) >>

\* line.strip() == "": the line holds nothing but blanks
IsBlankLine(line) == Len(line) = 1 /\ Strip(line[1]) = <<>>

\* item[k] exists for k in 0..7 and every int(...) succeeds
LineParses(line) ==
    /\ Len(line) >= 8
    /\ \A k \in {1, 3, 4, 5, 6, 7, 8} : ParseInt(line[k]).ok

\* the dictionary load_population builds from one line
ParseLine(line) ==
    [id             |-> ParseInt(line[1]).val,
     sex            |-> TextToStr(line[2]),
     age            |-> ParseInt(line[3]).val,
     alive          |-> ParseInt(line[4]).val,
     health         |-> ParseInt(line[5]).val,
     fertility      |-> ParseInt(line[6]).val,
     partner_id     |-> ParseInt(line[7]).val,
     children_count |-> ParseInt(line[8]).val]

\* load_population that keeps only the living
RECURSIVE ParseRowsLiving(_)
ParseRowsLiving(rows) ==
    IF rows = <<>> THEN <<>>
    ELSE IF IsBlankLine(Head(rows)) \/ ParseLine(Head(rows)).alive = 0
    THEN ParseRowsLiving(Tail(rows))
    ELSE <<ParseLine(Head(rows))>> \o ParseRowsLiving(Tail(rows))

RECURSIVE ParseRows(_)
ParseRows(rows) ==
    IF rows = <<>> THEN <<>>
    ELSE IF IsBlankLine(Head(rows)) THEN ParseRows(Tail(rows))
    ELSE <<ParseLine(Head(rows))>> \o ParseRows(Tail(rows))

\* lines[1:]
DataLines(f) == IF Len(f.lines) <= 1 THEN <<>> ELSE Tail(f.lines)

\* load_population: raised = an exception leaves the function (no file, a
\* line with fewer than eight fields, a field int() rejects)
load_population(f) ==
    LET rows == DataLines(f)
        bad  == \E i \in 1..Len(rows) :
                    ~IsBlankLine(rows[i]) /\ ~LineParses(rows[i])
    IN  IF ~f.exists \/ bad
        THEN [raised |-> TRUE, population |-> <<>>]
        ELSE [raised |-> FALSE, population |-> ParseRows(rows)]

\* everything save_population writes, in order: the header, then one line
\* per person
SaveLines(pop) == <<Header>> \o [i \in 1..Len(pop) |-> FormatLine(pop[i])]

\* the file after save_population(pop)
FileOf(pop) == [exists |-> TRUE, lines |-> SaveLines(pop)]

-----------------------------------------------------------------------------
(* generate_initial_population                                             *)

Founder(i, sex, age, health) ==
    [id |-> i, sex |-> sex, age |-> age, alive |-> 1, health |-> health,
     fertility |-> 1, partner_id |-> NoPartner, children_count |-> 0]

\* generate_initial_population whose second loop numbers the women from 0 again
generate_initial_population_renumbered(ages, healths) ==
    [i \in 1..(2 * FoundersPerSex) |->
        IF i <= FoundersPerSex THEN Founder(i - 1, "M", ages[i], healths[i])
        ELSE Founder(i - 1 - FoundersPerSex, "F", ages[i], healths[i])]

\* ages and healths are the randint draws, one per founder
generate_initial_population(ages, healths) ==
    [i \in 1..(2 * FoundersPerSex) |->
        Founder(i - 1, IF i <= FoundersPerSex THEN "M" ELSE "F", ages[i], healths[i])]

-----------------------------------------------------------------------------
(* The passes of one step.                                                 *)

Kill(p) == [p EXCEPT !.alive = 0]

\* death_one with the band from 15 to 40 closed at its upper end
death_one_closed(p, d) ==
    LET q == IF p.age < 1 /\ d < 50 THEN Kill(p) ELSE p
    IN  IF q.age < 15 /\ q.age > 1 THEN (IF d < 10 THEN Kill(q) ELSE q)
        ELSE IF q.age <= 40 /\ q.age > 15 THEN (IF d < 5 THEN Kill(q) ELSE q)
        ELSE IF q.age < 55 /\ q.age > 40 THEN (IF d < 20 THEN Kill(q) ELSE q)
        ELSE IF q.age < 70 /\ q.age > 55 THEN (IF d < 50 THEN Kill(q) ELSE q)
        ELSE IF q.age < 85 /\ q.age > 70 THEN (IF d < 150 THEN Kill(q) ELSE q)
        ELSE IF q.age >= 85 THEN (IF d < 350 THEN Kill(q) ELSE q)
        ELSE q

\* death_one whose band from 15 to 40 starts above 18
death_one_from18(p, d) ==
    LET q == IF p.age < 1 /\ d < 50 THEN Kill(p) ELSE p
    IN  IF q.age < 15 /\ q.age > 1 THEN (IF d < 10 THEN Kill(q) ELSE q)
        ELSE IF q.age < 40 /\ q.age > 18 THEN (IF d < 5 THEN Kill(q) ELSE q)
        ELSE IF q.age < 55 /\ q.age > 40 THEN (IF d < 20 THEN Kill(q) ELSE q)
        ELSE IF q.age < 70 /\ q.age > 55 THEN (IF d < 50 THEN Kill(q) ELSE q)
        ELSE IF q.age < 85 /\ q.age > 70 THEN (IF d < 150 THEN Kill(q) ELSE q)
        ELSE IF q.age >= 85 THEN (IF d < 350 THEN Kill(q) ELSE q)
        ELSE q

\* the body of death's loop for one person; d is the random.random() draw of
\* the one band the age falls in (the bands exclude each other, so at most
\* one draw is made for a person)
death_one(p, d) ==
    LET q == IF p.age < 1 /\ d < 50 THEN Kill(p) ELSE p
    IN  IF q.age < 15 /\ q.age > 1 THEN (IF d < 10 THEN Kill(q) ELSE q)
        ELSE IF q.age < 40 /\ q.age > 15 THEN (IF d < 5 THEN Kill(q) ELSE q)
        ELSE IF q.age < 55 /\ q.age > 40 THEN (IF d < 20 THEN Kill(q) ELSE q)
        ELSE IF q.age < 70 /\ q.age > 55 THEN (IF d < 50 THEN Kill(q) ELSE q)
        ELSE IF q.age < 85 /\ q.age > 70 THEN (IF d < 150 THEN Kill(q) ELSE q)
        ELSE IF q.age >= 85 THEN (IF d < 350 THEN Kill(q) ELSE q)
        ELSE q

\* death that looks at the age the agent will have after the aging pass
death_on_aged(pop, draws) ==
    [i \in 1..Len(pop) |->
        [pop[i] EXCEPT !.alive = death_one([pop[i] EXCEPT !.age = @ + StepYears], draws[i]).alive]]

death(pop, draws) == [i \in 1..Len(pop) |-> death_one(pop[i], draws[i])]

\* aging_one without the test of alive
aging_one_everyone(p) == [p EXCEPT !.age = p.age + StepYears]

aging_one(p) == IF p.alive = 1 THEN [p EXCEPT !.age = p.age + StepYears] ELSE p

aging_update(pop) == [i \in 1..Len(pop) |-> aging_one(pop[i])]

\* fertility_one with the lower threshold closed
fertility_one_from18(p) ==
    LET q == IF p.age >= 18 /\ p.fertility = 0 THEN [p EXCEPT !.fertility = 1] ELSE p
    IN  IF q.age > 65 THEN [q EXCEPT !.fertility = 0] ELSE q

fertility_one(p) ==
    LET q == IF p.age > 18 /\ p.fertility = 0 THEN [p EXCEPT !.fertility = 1] ELSE p
    IN  IF q.age > 65 THEN [q EXCEPT !.fertility = 0] ELSE q

fertility_update(pop) == [i \in 1..Len(pop) |-> fertility_one(pop[i])]

census(pop) == Cardinality({i \in 1..Len(pop) : pop[i].alive = 1})

Positions(pop) == [i \in 1..Len(pop) |-> i]

\* IsSingle that does not look at partner_id
IsSingleAlive(p) == p.alive = 1

IsSingle(p) == p.alive = 1 /\ p.partner_id = NoPartner

\* get_single_people: the living unpartnered persons by sex, in table order
singleMen(pop) ==
    LET keep(i) == IsSingle(pop[i]) /\ pop[i].sex = "M"
    IN  SelectSeq(Positions(pop), keep)

singleWomen(pop) ==
    LET keep(i) == IsSingle(pop[i]) /\ pop[i].sex = "F"
    IN  SelectSeq(Positions(pop), keep)

\* the orders random.shuffle can leave a list in
Shuffles(s) ==
    IF Len(s) <= 1 THEN {s}
    ELSE {[i \in 1..Len(s) |-> s[f[i]]] : f \in Permutations(1..Len(s))}

Min(a, b) == IF a < b THEN a ELSE b

\* pair_people that stops after the first pair
pair_people_first_only(m, w) == [i \in 1..Min(1, Min(Len(m), Len(w))) |-> <<m[i], w[i]>>]

\* pair_people after the two shuffles
pair_people(m, w) == [i \in 1..Min(Len(m), Len(w)) |-> <<m[i], w[i]>>]

\* apply_pairs that forgets the woman's side
RECURSIVE apply_pairs_man_only(_, _)
apply_pairs_man_only(pop, ps) ==
    IF ps = <<>> THEN pop
    ELSE apply_pairs_man_only(
            [pop EXCEPT ![Head(ps)[1]].partner_id = pop[Head(ps)[2]].id], Tail(ps))

RECURSIVE apply_pairs(_, _)
apply_pairs(pop, ps) ==
    IF ps = <<>> THEN pop
    ELSE LET man   == Head(ps)[1]
             woman == Head(ps)[2]
             p1    == [pop EXCEPT ![man].partner_id = pop[woman].id]
             p2    == [p1 EXCEPT ![woman].partner_id = p1[man].id]
         IN  apply_pairs(p2, Tail(ps))

\* next(x for x in population if x["id"] == id): the first such position, 0
\* when there is none (StopIteration)
FirstWithId(pop, id) ==
    IF \E j \in 1..Len(pop) : pop[j].id = id
    THEN CHOOSE j \in 1..Len(pop) :
            pop[j].id = id /\ \A k \in 1..(j - 1) : pop[k].id # id
    ELSE 0

\* CouplesFrom that marks only the agent it stands on as visited
RECURSIVE CouplesFromOwnIdOnly(_, _, _, _)
CouplesFromOwnIdOnly(pop, i, visited, couples) ==
    IF i > Len(pop) THEN [raised |-> FALSE, couples |-> couples]
    ELSE IF pop[i].partner_id # NoPartner /\ pop[i].id \notin visited
    THEN LET partner == FirstWithId(pop, pop[i].partner_id)
         IN  IF partner = 0 THEN [raised |-> TRUE, couples |-> couples]
             ELSE CouplesFromOwnIdOnly(pop, i + 1,
                                       visited \cup {pop[i].id},
                                       Append(couples, <<i, partner>>))
    ELSE CouplesFromOwnIdOnly(pop, i + 1, visited, couples)

RECURSIVE CouplesFrom(_, _, _, _)
CouplesFrom(pop, i, visited, couples) ==
    IF i > Len(pop) THEN [raised |-> FALSE, couples |-> couples]
    ELSE IF pop[i].partner_id # NoPartner /\ pop[i].id \notin visited
    THEN LET partner == FirstWithId(pop, pop[i].partner_id)
         IN  IF partner = 0 THEN [raised |-> TRUE, couples |-> couples]
             ELSE CouplesFrom(pop, i + 1,
                              visited \cup {pop[i].id, pop[partner].id},
                              Append(couples, <<i, partner>>))
    ELSE CouplesFrom(pop, i + 1, visited, couples)

get_all_couples(pop) == CouplesFrom(pop, 1, {}, <<>>)

MaxId(pop) == CHOOSE m \in {pop[i].id : i \in 1..Len(pop)} :
                  \A i \in 1..Len(pop) : pop[i].id <= m

Child(id, sex, health) ==
    [id |-> id, sex |-> sex, age |-> 0, alive |-> 1, health |-> health,
     fertility |-> 0, partner_id |-> NoPartner, children_count |-> 0]

\* Eligible without the test of alive
EligibleFertileOnly(pop, c) ==
    pop[c[1]].fertility = 1 /\ pop[c[2]].fertility = 1

\* Eligible that is content with one fertile member
EligibleOneFertile(pop, c) ==
    /\ pop[c[1]].alive = 1 /\ pop[c[2]].alive = 1
    /\ pop[c[1]].fertility = 1 \/ pop[c[2]].fertility = 1

\* may the couple at positions c[1], c[2] conceive
Eligible(pop, c) ==
    /\ pop[c[1]].alive = 1 /\ pop[c[2]].alive = 1
    /\ pop[c[1]].fertility = 1 /\ pop[c[2]].fertility = 1

\* AddChild that counts the child for the first parent only
AddChildFirstOnly(pop, c) ==
    [pop EXCEPT ![c[1]].children_count = pop[c[1]].children_count + 1]

\* AddChild that counts the child twice for the first parent
AddChildTwiceFirst(pop, c) ==
    [pop EXCEPT ![c[1]].children_count = pop[c[1]].children_count + 2]

AddChild(pop, c) ==
    LET p1 == [pop EXCEPT ![c[1]].children_count = pop[c[1]].children_count + 1]
    IN  [p1 EXCEPT ![c[2]].children_count = p1[c[2]].children_count + 1]

\* the loop of reproduce that gives every child of a step the same id
RECURSIVE ReproduceFromSameId(_, _, _, _, _, _)
ReproduceFromSameId(pop, couples, draws, k, next_id, new_children) ==
    IF k > Len(couples) THEN pop \o new_children
    ELSE IF Eligible(pop, couples[k]) /\ draws[k].conceive < 500
    THEN ReproduceFromSameId(AddChild(pop, couples[k]), couples, draws, k + 1, next_id,
                             Append(new_children,
                                    Child(next_id, IF draws[k].sex = 1 THEN "M" ELSE "F",
                                          draws[k].health)))
    ELSE ReproduceFromSameId(pop, couples, draws, k + 1, next_id, new_children)

\* the loop of reproduce from couple k on; draws[k] holds the draws made for
\* couple k: random.random() (conceive), randint(0, 1) (sex), randint(70, 100)
RECURSIVE ReproduceFrom(_, _, _, _, _, _)
ReproduceFrom(pop, couples, draws, k, next_id, new_children) ==
    IF k > Len(couples) THEN pop \o new_children
    ELSE IF Eligible(pop, couples[k]) /\ draws[k].conceive < 500
    THEN ReproduceFrom(AddChild(pop, couples[k]), couples, draws, k + 1, next_id + 1,
                       Append(new_children,
                              Child(next_id, IF draws[k].sex = 1 THEN "M" ELSE "F",
                                    draws[k].health)))
    ELSE ReproduceFrom(pop, couples, draws, k + 1, next_id, new_children)

\* reproduce that starts numbering at the largest id instead of above it
reproduce_from_max(pop, couples, draws) ==
    ReproduceFrom(pop, couples, draws, 1, MaxId(pop), <<>>)

reproduce(pop, couples, draws) ==
    ReproduceFrom(pop, couples, draws, 1, MaxId(pop) + 1, <<>>)

-----------------------------------------------------------------------------
(* main(): one action per statement of the loop.                           *)

MaxYear == MaxSteps * StepYears

\* try: population = load_population(); an empty table raises
\* FileNotFoundError; the bare except takes every exception to the
\* generate branch
Load ==
    /\ pc = "load"
    /\ LET r == load_population(file)
       IN  IF r.raised \/ Len(r.population) = 0
           THEN pc' = "generate" /\ UNCHANGED population
           ELSE pc' = "prompt" /\ population' = r.population
    /\ UNCHANGED <<file, year, men, women, pairs, all_couples, ret, snapshot>>

\* except: population = generate_initial_population(); save_population(...)
Generate(A) ==
    /\ pc = "generate"
    /\ \E ages \in [1..(2 * FoundersPerSex) -> A],
          healths \in [1..(2 * FoundersPerSex) -> HealthDraws] :
            population' = generate_initial_population(ages, healths)
    /\ pc' = "save_population"
    /\ ret' = "prompt"
    /\ UNCHANGED <<file, year, men, women, pairs, all_couples, snapshot>>

\* inp = input(...): "" runs a step, anything else goes round the loop
Prompt ==
    /\ pc = "prompt"
    /\ \E inp \in {"", "n"} :
          IF inp = ""
          THEN /\ year < MaxYear
               /\ Len(population) <= MaxAgents
               /\ pc' = "death"
          ELSE pc' = "load"
    /\ UNCHANGED <<population, file, year, men, women, pairs, all_couples, ret, snapshot>>

Death(D) ==
    /\ pc = "death"
    /\ \E draws \in [1..Len(population) -> D] :
          population' = death(population, draws)
    /\ pc' = "aging"
    /\ UNCHANGED <<file, year, men, women, pairs, all_couples, ret, snapshot>>

Aging ==
    /\ pc = "aging"
    /\ population' = aging_update(population)
    /\ pc' = "fertility"
    /\ UNCHANGED <<file, year, men, women, pairs, all_couples, ret, snapshot>>

Fertility ==
    /\ pc = "fertility"
    /\ population' = fertility_update(population)
    /\ pc' = "get_single_people"
    /\ UNCHANGED <<file, year, men, women, pairs, all_couples, ret, snapshot>>

GetSinglePeople ==
    /\ pc = "get_single_people"
    /\ men' = singleMen(population)
    /\ women' = singleWomen(population)
    /\ pc' = "pair_people"
    /\ UNCHANGED <<population, file, year, pairs, all_couples, ret, snapshot>>

PairPeople ==
    /\ pc = "pair_people"
    /\ \E m \in Shuffles(men), w \in Shuffles(women) :
          /\ men' = m
          /\ women' = w
          /\ pairs' = pair_people(m, w)
    /\ pc' = "apply_pairs"
    /\ UNCHANGED <<population, file, year, all_couples, ret, snapshot>>

ApplyPairs ==
    /\ pc = "apply_pairs"
    /\ population' = apply_pairs(population, pairs)
    /\ pc' = "get_all_couples"
    /\ UNCHANGED <<file, year, men, women, pairs, all_couples, ret, snapshot>>

\* an agent whose partner is not in the table ends the process (StopIteration
\* is not caught)
GetAllCouples ==
    /\ pc = "get_all_couples"
    /\ LET r == get_all_couples(population)
       IN  IF r.raised
           THEN pc' = "terminated" /\ UNCHANGED all_couples
           ELSE pc' = "reproduce" /\ all_couples' = r.couples
    /\ UNCHANGED <<population, file, year, men, women, pairs, ret, snapshot>>

CoupleDraws == [conceive : DrawValues, sex : {0, 1}, health : HealthDraws]

\* reproduce(population, all_couples); year += 5.  The lists of the step are
\* not read again before the next step assigns them: they are emptied here.
Reproduce ==
    /\ pc = "reproduce"
    /\ \E draws \in [1..Len(all_couples) -> CoupleDraws] :
          population' = reproduce(population, all_couples, draws)
    /\ year' = year + StepYears
    /\ men' = <<>> /\ women' = <<>> /\ pairs' = <<>> /\ all_couples' = <<>>
    /\ pc' = "save_population"
    /\ ret' = "load"
    /\ UNCHANGED <<file, snapshot>>

\* save_population(population), from open to the end of the with block
Save ==
    /\ pc = "save_population"
    /\ file' = [exists |-> TRUE, lines |-> SaveLines(population)]
    /\ snapshot' = SaveLines(population)
    /\ pc' = ret
    /\ UNCHANGED <<population, year, men, women, pairs, all_couples, ret>>

(* save_population statement by statement, for the runs in which the       *)
(* process may end while the file is open.                                 *)

\* open(FILE_PATH, "w"): the file exists and is empty
SaveOpen ==
    /\ pc = "save_population"
    /\ file' = [exists |-> TRUE, lines |-> <<>>]
    /\ pc' = "save_write"
    /\ UNCHANGED <<population, year, men, women, pairs, all_couples, ret, snapshot>>

\* one f.write: the header, then the persons in table order
SaveWrite ==
    /\ pc = "save_write"
    /\ Len(file.lines) < Len(SaveLines(population))
    /\ file' = [file EXCEPT !.lines = Append(@, SaveLines(population)[Len(@) + 1])]
    /\ UNCHANGED <<pc, population, year, men, women, pairs, all_couples, ret, snapshot>>

\* the with block ends: the file is closed and save_population returns
SaveClose ==
    /\ pc = "save_write"
    /\ Len(file.lines) = Len(SaveLines(population))
    /\ snapshot' = file.lines
    /\ pc' = ret
    /\ UNCHANGED <<population, file, year, men, women, pairs, all_couples, ret>>

\* the process ends (killed, interrupted, power loss) wherever it is.  While
\* save_population has the file open, what reaches the disk is some prefix
\* of the lines written so far.  population keeps the table the process held.
Crash ==
    /\ pc # "terminated"
    /\ pc' = "terminated"
    /\ IF pc = "save_write"
       THEN \E k \in 0..Len(file.lines) :
               file' = [file EXCEPT !.lines = SubSeq(@, 1, k)]
       ELSE UNCHANGED file
    /\ UNCHANGED <<population, year, men, women, pairs, all_couples, ret, snapshot>>

\* the statements of main's loop but save_population; D is the set the
\* draws of the mortality pass come from, A the set the founders' ages come
\* from
Body(D, A) ==
    \/ Load
    \/ Generate(A)
    \/ Prompt
    \/ Death(D)
    \/ Aging
    \/ Fertility
    \/ GetSinglePeople
    \/ PairPeople
    \/ ApplyPairs
    \/ GetAllCouples
    \/ Reproduce

Start(f) ==
    /\ pc = "load"
    /\ population = <<>>
    /\ file = f
    /\ year = 0
    /\ men = <<>> /\ women = <<>> /\ pairs = <<>> /\ all_couples = <<>>
    /\ ret = "prompt"
    /\ snapshot = f.lines

EmptyFile == [exists |-> TRUE, lines |-> <<>>]

HeaderOnlyFile == [exists |-> TRUE, lines |-> <<Header>>]

\* the process starts with no snapshot, or with one that holds no agent
Init == \E f \in {NoFile, EmptyFile, HeaderOnlyFile} : Start(f)

Next == Body(DrawValues, FounderAges) \/ Save

\* runs from the synthesized initial population
Spec == Init /\ [][Next]_vars

\* every mortality draw is 0.0
ZeroDraws == {0}

\* founders' ages of these runs: the ends of randint(18, 40) and their
\* neighbours
ZeroRunAges == {AgeMin, AgeMin + 1, AgeMax - 1, AgeMax}

NextZero == Body(ZeroDraws, ZeroRunAges) \/ Save

SpecZero == Init /\ [][NextZero]_vars

-----------------------------------------------------------------------------
(* Runs that start from a snapshot already on disk, and in which the       *)
(* process may end at any point.                                           *)

Person(id, sex, age, alive, fertility, partner_id, children_count) ==
    [id |-> id, sex |-> sex, age |-> age, alive |-> alive, health |-> 80,
     fertility |-> fertility, partner_id |-> partner_id,
     children_count |-> children_count]

\* ages on, just below and just above every threshold of death and
\* fertility_update
AgeSamples == {0, 1, 2, 14, 15, 16, 18, 19, 39, 40, 41, 54, 55, 56,
               65, 66, 69, 70, 71, 84, 85, 86}

\* one agent, any sampled age
LoneTables ==
    {<<Person(0, sex, age, alive, fertility, NoPartner, 0)>> :
        sex \in {"M", "F"}, age \in AgeSamples, alive \in {0, 1}, fertility \in {0, 1}}

\* the couple with ids 5 and 6, each member young, adult or old, alive or
\* dead, fertile or not
CoupleTables ==
    {<<Person(5, "M", a[1], l[1], f[1], 6, c),
       Person(6, "F", a[2], l[2], f[2], 5, c)>> :
        a \in {<<30, 28>>, <<13, 30>>, <<30, 61>>, <<66, 30>>},
        l \in {<<1, 1>>, <<0, 1>>, <<1, 0>>},
        f \in {<<1, 1>>, <<0, 1>>, <<1, 0>>},
        c \in {0, 2}}

\* unpartnered agents of both sexes, more of one sex than of the other
SinglesTables ==
    {<<Person(3, "M", 20, 1, 1, NoPartner, 0), Person(7, "F", 25, 1, 1, NoPartner, 0),
       Person(9, "M", 41, 1, 1, NoPartner, 0)>>,
     <<Person(1, "F", 20, 1, 1, NoPartner, 0), Person(2, "F", 66, 1, 0, NoPartner, 1),
       Person(4, "M", 10, 1, 0, NoPartner, 0)>>}

SnapshotTables == LoneTables \cup CoupleTables \cup SinglesTables

ValidFiles == {FileOf(t) : t \in SnapshotTables}

SampleLine == FormatLine(Person(5, "M", 30, 1, 1, NoPartner, 0))

OtherLine == FormatLine(Person(6, "F", 28, 1, 1, NoPartner, 0))

\* snapshots holding a record load_population cannot read as written: a
\* field missing, a field too many, a field that is no integer
ShortLine == SubSeq(SampleLine, 1, 7)

LongLine == Append(SampleLine, <<"9">>)

WordLine == [SampleLine EXCEPT ![3] = <<"x">>]

MalformedFiles ==
    {[exists |-> TRUE, lines |-> <<Header>> \o rows] :
        rows \in {<<ShortLine>>, <<LongLine>>, <<WordLine>>,
                  <<OtherLine, ShortLine>>, <<OtherLine, LongLine>>,
                  <<WordLine, OtherLine>>}}

\* snapshots load_population reads although save_population never writes
\* them so: a blank line, padded or signed integers, a partner that is not
\* in the table
OddFiles ==
    {[exists |-> TRUE, lines |-> <<Header>> \o rows] :
        rows \in {<<SampleLine, <<<<" ">>>>, OtherLine>>,
                  <<[SampleLine EXCEPT ![3] = <<" ", "3", "0">>, ![5] = <<"+", "8", "0">>]>>,
                  <<FormatLine(Person(5, "M", 30, 1, 1, 6, 0))>>}}

InitStore ==
    \E f \in {NoFile, HeaderOnlyFile} \cup ValidFiles \cup MalformedFiles \cup OddFiles :
        Start(f)

NextStore == Body(DrawValues, FounderAges) \/ SaveOpen \/ SaveWrite \/ SaveClose \/ Crash

SpecStore == InitStore /\ [][NextStore]_vars

-----------------------------------------------------------------------------
(* Runs that enter a step with a table of four agents: two couples, or     *)
(* unpartnered agents of both sexes.  MaxAgents bounds the steps after it. *)

Adult(id, sex, partner_id) == Person(id, sex, 30, 1, 1, partner_id, 0)

\* two couples, their members in the table in every relative order
TwoCoupleTables ==
    {<<Adult(5, "M", 6), Adult(6, "F", 5), Adult(8, "M", 9), Adult(9, "F", 8)>>,
     <<Adult(5, "M", 6), Adult(8, "M", 9), Adult(9, "F", 8), Adult(6, "F", 5)>>,
     <<Adult(6, "F", 5), Adult(9, "F", 8), Adult(5, "M", 6), Adult(8, "M", 9)>>}

\* unpartnered agents: as many men as women, more men, a dead one among them
FourSinglesTables ==
    {<<Adult(0, "M", NoPartner), Adult(1, "M", NoPartner),
       Adult(2, "F", NoPartner), Adult(3, "F", NoPartner)>>,
     <<Adult(0, "M", NoPartner), Adult(1, "F", NoPartner),
       Adult(2, "M", NoPartner), Adult(3, "M", NoPartner)>>,
     <<Adult(0, "F", NoPartner), Person(1, "F", 30, 0, 1, NoPartner, 0),
       Adult(2, "M", NoPartner), Adult(3, "M", NoPartner)>>}

\* the process has loaded the table t and the user has pressed Enter
StartStep(t) ==
    /\ pc = "death"
    /\ population = t
    /\ file = FileOf(t)
    /\ year = 0
    /\ men = <<>> /\ women = <<>> /\ pairs = <<>> /\ all_couples = <<>>
    /\ ret = "prompt"
    /\ snapshot = SaveLines(t)

InitFour ==
    \/ Init
    \/ \E t \in TwoCoupleTables \cup FourSinglesTables : StartStep(t)

SpecFour == InitFour /\ [][Next]_vars

-----------------------------------------------------------------------------
(* Properties.                                                             *)

Rows(pop) == 1..Len(pop)

\* every partner reference points to an agent of the table that points back
Symmetric(pop) ==
    \A i \in Rows(pop) :
        pop[i].partner_id # NoPartner =>
            /\ \E j \in Rows(pop) : pop[j].id = pop[i].partner_id
            /\ \A j \in Rows(pop) :
                  pop[j].id = pop[i].partner_id => pop[j].partner_id = pop[i].id

\* no agent is the partner of two agents
NoSharedPartner(pop) ==
    \A i, k \in Rows(pop) :
        (i # k /\ pop[i].partner_id # NoPartner) => pop[i].partner_id # pop[k].partner_id

\* C1: in a run from the synthesized initial population, after apply_pairs
\* and after reproduce the partnership relation is symmetric over all agents,
\* alive or dead, and no agent is the partner of two agents.
C1_PartnershipSymmetric ==
    pc \in {"get_all_couples", "save_population"} =>
        Symmetric(population) /\ NoSharedPartner(population)

\* a step has paired agents and appended a child, and one partnered agent is dead
C1_Witness ==
    /\ pc = "save_population"
    /\ Len(population) > 2 * FoundersPerSex
    /\ \E i \in Rows(population) :
          population[i].partner_id # NoPartner /\ population[i].alive = 0

UniqueIds(pop) == \A i, j \in Rows(pop) : i # j => pop[i].id # pop[j].id

\* C2: ids are unique in every table the run holds, every row keeps its id,
\* and the agents reproduce appends get ids above every id the table held
\* before reproduce.
C2_Step ==
    /\ UniqueIds(population')
    /\ Len(population') >= Len(population)
    /\ \A i \in Rows(population) : population'[i].id = population[i].id
    /\ population # <<>> =>
          \A k \in (Len(population) + 1)..Len(population') :
              /\ pc = "reproduce"
              /\ population'[k].id > MaxId(population)

C2_FreshUniqueIds == [][C2_Step]_vars

\* two steps have each appended a child
C2_Witness ==
    /\ pc = "save_population"
    /\ Len(population) = 2 * FoundersPerSex + 2
    /\ year = 2 * StepYears

\* a record of the snapshot that load_population cannot read as a record of
\* eight fields: a wrong field count or a field that is no integer
HasBadRecord(lines) ==
    \E i \in 2..Len(lines) :
        /\ ~IsBlankLine(lines[i])
        /\ Len(lines[i]) # 8 \/ ~LineParses(lines[i])

\* C3: a snapshot with a record of the wrong field count or with a
\* non-coercible value is a fatal load error: the process does not get past
\* the load (no row dropped or accepted, no fresh population) and the
\* snapshot stays as it is.
C3_MalformedIsFatal ==
    HasBadRecord(snapshot) =>
        pc \in {"load", "terminated"} /\ file.lines = snapshot

\* C4: when the process has ended in or after a step (year > 0: the step's
\* reproduce has run), the file holds the last completely saved snapshot or
\* the complete table of the step that was being saved, never less.
C4_SnapshotNeverPartial ==
    (pc = "terminated" /\ year > 0) =>
        file.lines = snapshot \/ file.lines = SaveLines(population)

\* the mortality pass has just run on the table
DeathStep == pc = "death" /\ pc' = "aging"

Unchecked(ages) ==
    DeathStep =>
        \A i \in Rows(population) :
            population[i].age \in ages => population'[i].alive = population[i].alive

\* C5 as stated: an agent aged exactly 1, 15, 40, 55, 70 or 85 is left as it
\* is by the mortality pass, whatever the draws.
C5_BoundaryAgesImmune == [][Unchecked({1, 15, 40, 55, 70, 85})]_vars

\* C5 amended: an agent aged exactly 1, 15, 40, 55 or 70 is left as it is by
\* the mortality pass, whatever the draws (85 falls in the band age >= 85).
C5_GapAgesImmune == [][Unchecked({1, 15, 40, 55, 70})]_vars

\* the mortality pass has run over a living agent of a gap age
C5_Witness ==
    /\ pc = "aging"
    /\ \E i \in Rows(population) :
          population[i].age \in {1, 15, 40, 55, 70} /\ population[i].alive = 1

\* the table the last completed save wrote
SavedTable == ParseRows(IF Len(snapshot) <= 1 THEN <<>> ELSE Tail(snapshot))

\* the first step of the run has just ended; SavedTable is still the
\* synthesized population the step started from
FirstStepDone == pc = "save_population" /\ ret = "load" /\ year = StepYears

AllDeadNothingElse ==
    /\ census(population) = 0
    /\ \A i \in Rows(population) : population[i].partner_id = NoPartner
    /\ Len(population) = Len(SavedTable)

\* C6 as stated: from every synthesized initial population (ages anywhere in
\* 18..40), a step whose mortality draws are all 0.0 ends with census 0, no
\* partnership and no agent appended.
C6_AllDie == FirstStepDone => AllDeadNothingElse

\* C6 amended: the same for every synthesized initial population in which no
\* agent is aged exactly 40.
C6_AllDieBelow40 ==
    (FirstStepDone /\ \A i \in Rows(SavedTable) : SavedTable[i].age # AgeMax)
        => AllDeadNothingElse

\* such a step has ended, from founders aged 18 and 39
C6_Witness ==
    /\ FirstStepDone
    /\ {SavedTable[i].age : i \in Rows(SavedTable)} = {AgeMin, AgeMax - 1}
    /\ census(population) = 0

\* C7: no step of the run removes a row or changes its id, and a row whose
\* alive is 0 keeps alive = 0.
C7_Step ==
    /\ Len(population') >= Len(population)
    /\ \A i \in Rows(population) :
          /\ population'[i].id = population[i].id
          /\ population[i].alive = 0 => population'[i].alive = 0

C7_NeverRemovedNeverRevived == [][C7_Step]_vars

\* a dead agent is in the table a later step started from
C7_Witness ==
    /\ pc = "death"
    /\ year >= StepYears
    /\ \E i \in Rows(population) : population[i].alive = 0

\* C8: in a run from the synthesized initial population, no step changes
\* fertility, partner_id or children_count of a row that is dead after the
\* step (the step that kills it included).
C8_Step ==
    \A i \in Rows(population) :
        (i <= Len(population') /\ population'[i].alive = 0) =>
            /\ population'[i].fertility = population[i].fertility
            /\ population'[i].partner_id = population[i].partner_id
            /\ population'[i].children_count = population[i].children_count

C9_Step ==
    /\ (pc = "aging" /\ pc' = "fertility") =>
          /\ Len(population') = Len(population)
          /\ \A i \in Rows(population) :
                population'[i].age =
                    IF population[i].alive = 1 THEN population[i].age + 5
                    ELSE population[i].age
    /\ \A i \in Rows(population) :
          (i <= Len(population') /\ (pc # "aging" \/ population[i].alive = 0)) =>
              population'[i].age = population[i].age

C9_AgingByFive == [][C9_Step]_vars

\* the aging pass has run over a table with a living agent and an agent that
\* died at some age, and a step had been completed before
C9_Witness ==
    /\ pc = "fertility"
    /\ year >= StepYears
    /\ \E i, j \in Rows(population) :
          population[i].alive = 0 /\ population[j].alive = 1

Raised(i) == population'[i].children_count = population[i].children_count + 1

\* C10: no step lowers a children_count; only reproduce changes one, by
\* exactly 1, for both members of a couple, and for two agents per child it
\* appends.
C10_Step ==
    /\ Len(population') >= Len(population)
    /\ \A i \in Rows(population) :
          /\ population'[i].children_count >= population[i].children_count
          /\ population'[i].children_count # population[i].children_count =>
                /\ pc = "reproduce"
                /\ Raised(i)
                /\ \E j \in Rows(population) :
                      /\ j # i
                      /\ population[j].id = population[i].partner_id
                      /\ population[i].id = population[j].partner_id
                      /\ Raised(j)
    /\ pc = "reproduce" =>
          Cardinality({i \in Rows(population) : Raised(i)})
              = 2 * (Len(population') - Len(population))

C10_ChildrenCountMonotone == [][C10_Step]_vars

\* reproduce has appended a child to a couple that had children before
C10_Witness ==
    /\ pc = "save_population"
    /\ Len(population) = 3
    /\ population[1].children_count = 3 /\ population[2].children_count = 3


\* reproduce has just run
ReproduceStep == pc = "reproduce" /\ pc' = "save_population"

Newborn(k) == population'[Len(population) + k]

\* C11: reproduce appends one agent per conceiving couple (two raised
\* children_count each); the k-th agent it appends has id = largest id of the
\* table before reproduce + k, age 0, alive, infertile, no partner and no
\* children.
C11_Step ==
    ReproduceStep =>
        /\ Len(population') >= Len(population)
        /\ 2 * (Len(population') - Len(population))
              = Cardinality({i \in Rows(population) :
                    population'[i].children_count = population[i].children_count + 1})
        /\ \A k \in 1..(Len(population') - Len(population)) :
              /\ Newborn(k).id = MaxId(population) + k
              /\ Newborn(k).age = 0
              /\ Newborn(k).alive = 1
              /\ Newborn(k).fertility = 0
              /\ Newborn(k).partner_id = NoPartner
              /\ Newborn(k).children_count = 0
              /\ Newborn(k).sex \in {"M", "F"}

C11_NewbornDefaults == [][C11_Step]_vars

\* the couple 5, 6 and the couple 8, 9 have each had a child in one step:
\* the children are 10 and 11 and every parent counts one child
C11_Witness ==
    /\ pc = "save_population"
    /\ Len(population) = 6
    /\ {population[i].id : i \in 1..4} = {5, 6, 8, 9}
    /\ \A i \in 1..4 : population[i].children_count = 1
    /\ population[5].id = 10 /\ population[6].id = 11


\* a population as generate_initial_population builds it: FoundersPerSex men
\* then FoundersPerSex women (10 and 10 in the program), ids from 0 in table
\* order
IsInitialPopulation(pop) ==
    /\ Len(pop) = 2 * FoundersPerSex
    /\ \A i \in Rows(pop) :
          /\ pop[i].id = i - 1
          /\ pop[i].sex = IF i <= FoundersPerSex THEN "M" ELSE "F"
          /\ pop[i].age \in 18..40
          /\ pop[i].health \in 70..100
          /\ pop[i].alive = 1 /\ pop[i].fertility = 1
          /\ pop[i].partner_id = NoPartner /\ pop[i].children_count = 0

\* C12: with no snapshot, or one that holds no agent, the driver builds the
\* initial population (ids 0.., the men then the women, ages 18..40, health
\* 70..100, alive, fertile, unpartnered, childless) and saves it before any
\* step runs, so that loading the file gives that same population.
C12_InitialPopulationSaved ==
    /\ pc = "generate" => Len(load_population(file).population) = 0
    /\ (pc = "save_population" /\ ret = "prompt") => IsInitialPopulation(population)
    /\ (pc \in {"prompt", "death"} /\ year = 0) =>
          /\ IsInitialPopulation(population)
          /\ load_population(file) = [raised |-> FALSE, population |-> population]

\* the initial population is in memory and on disk, and no step has run
C12_Witness ==
    /\ pc = "prompt" /\ year = 0
    /\ IsInitialPopulation(population)
    /\ file = FileOf(population)


\* C13: for every table the process saves or has loaded, load_population
\* after save_population gives the table back, field for field and in the
\* same order, and saving that again writes the same file.
C13_RoundTrip ==
    pc \in {"save_population", "save_write", "prompt"} =>
        LET saved  == FileOf(population)
            loaded == load_population(saved)
        IN  /\ ~loaded.raised
            /\ loaded.population = population
            /\ FileOf(loaded.population) = saved

\* a table with a couple, one of them dead, and their unpartnered child has
\* been saved and loaded again
C13_Witness ==
    /\ pc = "prompt"
    /\ year >= StepYears
    /\ Len(population) = 3
    /\ population[1].partner_id = population[2].id
    /\ population[1].alive = 0 /\ population[1].fertility = 1
    /\ population[3].partner_id = NoPartner


\* the order of the statements of main's loop
MainOrder ==
    {<<"load", "generate">>, <<"load", "prompt">>, <<"generate", "save_population">>,
     <<"prompt", "load">>, <<"prompt", "death">>, <<"death", "aging">>,
     <<"aging", "fertility">>, <<"fertility", "get_single_people">>,
     <<"get_single_people", "pair_people">>, <<"pair_people", "apply_pairs">>,
     <<"apply_pairs", "get_all_couples">>, <<"get_all_couples", "reproduce">>,
     <<"reproduce", "save_population">>, <<"save_population", "prompt">>,
     <<"save_population", "load">>}

\* a step has run up to its save; SavedTable is the table it started from
StepDone == pc = "save_population" /\ ret = "load"

\* C15: the passes run in the order mortality, aging, fertility update,
\* single extraction, match, commit, couple extraction, reproduction,
\* persistence.  Mortality looks at the age on entering the step: a living
\* agent entering at a gap age (1, 15, 40, 55, 70) ends the step alive and 5
\* years older, and an agent killed in the step keeps its entry age.  An
\* agent killed in the step is in no pair of the step and keeps its
\* partner_id, and every pair committed in the step is among the couples
\* reproduce runs over.
C15_Step ==
    /\ pc' # pc => <<pc, pc'>> \in MainOrder
    /\ pc \in {"apply_pairs", "get_all_couples", "reproduce"} =>
          \A k \in 1..Len(pairs) :
              population[pairs[k][1]].alive = 1 /\ population[pairs[k][2]].alive = 1
    /\ pc = "reproduce" =>
          \A k \in 1..Len(pairs) :
              \E c \in 1..Len(all_couples) :
                  {all_couples[c][1], all_couples[c][2]} = {pairs[k][1], pairs[k][2]}
    /\ StepDone =>
          \A i \in Rows(SavedTable) :
              /\ (SavedTable[i].alive = 1 /\ SavedTable[i].age \in {1, 15, 40, 55, 70}) =>
                    population[i].alive = 1 /\ population[i].age = SavedTable[i].age + 5
              /\ (SavedTable[i].alive = 1 /\ population[i].alive = 0) =>
                    /\ population[i].age = SavedTable[i].age
                    /\ population[i].partner_id = SavedTable[i].partner_id

C15_PassOrder == [][C15_Step]_vars

\* in one step an agent was killed and stayed unpartnered, two others were
\* paired and had a child, and a founder who entered aged 40 is alive at 45
C15_Witness ==
    /\ StepDone
    /\ \E i \in Rows(SavedTable) :
          /\ SavedTable[i].alive = 1 /\ population[i].alive = 0
          /\ population[i].partner_id = NoPartner
    /\ \E i \in Rows(SavedTable) :
          /\ SavedTable[i].partner_id = NoPartner
          /\ population[i].partner_id # NoPartner
          /\ population[i].children_count = 1


\* both members alive and fertile in the table reproduce is called on
BothAliveAndFertile(c) ==
    \A j \in {c[1], c[2]} : population[j].alive = 1 /\ population[j].fertility = 1

\* C16: reproduce appends at most one child per couple whose members are both
\* alive and both fertile in the table it is called on (after the step's
\* mortality and fertility update); the members of a couple with a dead or an
\* infertile member keep their children_count.
C16_Step ==
    ReproduceStep =>
        /\ Len(population') - Len(population)
              <= Cardinality({k \in 1..Len(all_couples) : BothAliveAndFertile(all_couples[k])})
        /\ \A k \in 1..Len(all_couples) :
              ~BothAliveAndFertile(all_couples[k]) =>
                  \A j \in {all_couples[k][1], all_couples[k][2]} :
                      population'[j].children_count = population[j].children_count

C16_OnlyLivingFertileCouples == [][C16_Step]_vars

\* reproduce has run over a couple whose members are both alive, one of them
\* infertile: no child, both counts as they were
C16_Witness ==
    /\ StepDone
    /\ Len(population) = 2 /\ Len(SavedTable) = 2
    /\ population[1].partner_id = population[2].id
    /\ population[1].alive = 1 /\ population[2].alive = 1
    /\ population[1].fertility = 0 /\ population[2].fertility = 1
    /\ population[1].children_count = 2 /\ population[2].children_count = 2


\* the positions of the partnered agents of the table
Partnered(pop) == {i \in Rows(pop) : pop[i].partner_id # NoPartner}

\* the couples in which position i occurs
CouplesOf(i) == {k \in 1..Len(all_couples) : i \in {all_couples[k][1], all_couples[k][2]}}

\* C17: on a table with symmetric partnership get_all_couples returns every
\* partnered pair exactly once, wherever its members stand in the table, and
\* no agent occurs in two returned pairs; reproduce then appends at most one
\* child per couple and raises no children_count by more than 1.
C17_Step ==
    /\ (pc = "reproduce" /\ Symmetric(population)) =>
          /\ \A i \in Partnered(population) : Cardinality(CouplesOf(i)) = 1
          /\ \A i \in Rows(population) \ Partnered(population) : CouplesOf(i) = {}
          /\ \A k \in 1..Len(all_couples) :
                LET a == all_couples[k][1]
                    b == all_couples[k][2]
                IN  /\ a # b
                    /\ population[a].partner_id = population[b].id
                    /\ population[b].partner_id = population[a].id
          /\ 2 * Len(all_couples) = Cardinality(Partnered(population))
    /\ (ReproduceStep /\ Symmetric(population)) =>
          /\ Len(population') - Len(population) <= Len(all_couples)
          /\ \A i \in Rows(population) :
                population'[i].children_count <= population[i].children_count + 1

C17_EachCoupleOnce == [][C17_Step]_vars

\* a table of two couples whose members are interleaved (the second couple's
\* first member stands before the first couple's second member), both with a
\* child from this step
C17_Witness ==
    /\ StepDone
    /\ Len(SavedTable) = 4 /\ Len(population) = 6
    /\ population[1].partner_id = population[3].id
    /\ population[2].partner_id = population[4].id
    /\ \A i \in 1..4 : population[i].children_count = 1


\* the positions of the living unpartnered agents of a sex
LivingUnpartnered(pop, sex) ==
    {i \in Rows(pop) : pop[i].alive = 1 /\ pop[i].partner_id = NoPartner /\ pop[i].sex = sex}

ApplyPairsStep == pc = "apply_pairs" /\ pc' = "get_all_couples"

\* C18: the pairing of a step forms exactly min(living unpartnered males,
\* living unpartnered females) partnerships, each of one male and one female
\* that were alive and unpartnered, no agent in two of them and no other
\* agent touched; right after apply_pairs the table does not hold both a
\* living unpartnered male and a living unpartnered female.
C18_Step ==
    ApplyPairsStep =>
        LET M == LivingUnpartnered(population, "M")
            F == LivingUnpartnered(population, "F")
            paired == {pairs[k][j] : k \in 1..Len(pairs), j \in {1, 2}}
        IN  /\ Len(pairs) = Min(Cardinality(M), Cardinality(F))
            /\ \A k \in 1..Len(pairs) :
                  /\ pairs[k][1] \in M /\ pairs[k][2] \in F
                  /\ population'[pairs[k][1]].partner_id = population[pairs[k][2]].id
                  /\ population'[pairs[k][2]].partner_id = population[pairs[k][1]].id
            /\ Cardinality(paired) = 2 * Len(pairs)
            /\ \A i \in Rows(population) \ paired : population'[i] = population[i]
            /\ Len(population') = Len(population)
            /\ \/ LivingUnpartnered(population', "M") = {}
               \/ LivingUnpartnered(population', "F") = {}

C18_PairsAreMinOfSingles == [][C18_Step]_vars

\* apply_pairs has committed two pairs formed from two men and two women, the
\* shuffle having crossed them
C18_Witness ==
    /\ pc = "get_all_couples"
    /\ Len(pairs) = 2
    /\ pairs[1][1] > pairs[2][1] /\ pairs[1][2] < pairs[2][2]
    /\ \A k \in 1..2 : population[pairs[k][1]].partner_id = population[pairs[k][2]].id


\* C19: a partner_id that is set to an agent's id is the same after every
\* step of the process: a partnered agent is not matched again and a couple
\* is not broken, whether or not its members are alive.
C19_Step ==
    /\ Len(population') >= Len(population)
    /\ \A i \in Rows(population) :
          population[i].partner_id # NoPartner =>
              population'[i].partner_id = population[i].partner_id

C19_PartnerNeverChanges == [][C19_Step]_vars

\* a step has ended with a living agent whose partner is dead next to a living
\* unpartnered agent of the other sex: the pairing left both as they were
C19_Witness ==
    /\ StepDone
    /\ \E i, j, k \in Rows(population) :
          /\ population[i].alive = 1 /\ population[i].partner_id = population[j].id
          /\ population[j].alive = 0
          /\ population[k].alive = 1 /\ population[k].partner_id = NoPartner
          /\ population[k].sex # population[i].sex


FertilityStep == pc = "fertility" /\ pc' = "get_single_people"

\* C20: right after fertility_update every agent, alive or dead, with
\* age > 65 is infertile, with 18 < age <= 65 is fertile, and with age <= 18
\* has the fertility it had before; the update changes no other field.
C20_Step ==
    FertilityStep =>
        /\ Len(population') = Len(population)
        /\ \A i \in Rows(population) :
              LET p == population[i]
                  q == population'[i]
              IN  /\ q = [p EXCEPT !.fertility = q.fertility]
                  /\ p.age > 65 => q.fertility = 0
                  /\ (18 < p.age /\ p.age <= 65) => q.fertility = 1
                  /\ p.age <= 18 => q.fertility = p.fertility

C20_FertilityByAge == [][C20_Step]_vars

\* fertility_update has made a dead agent of 66 infertile that was stored as
\* fertile
C20_Witness ==
    /\ pc = "get_single_people"
    /\ Len(population) = 1 /\ Len(SavedTable) = 1
    /\ SavedTable[1].alive = 0 /\ SavedTable[1].age = 66 /\ SavedTable[1].fertility = 1
    /\ population[1].fertility = 0


RECURSIVE SumChildren(_)
SumChildren(pop) ==
    IF pop = <<>> THEN 0 ELSE Head(pop).children_count + SumChildren(Tail(pop))

\* the agents of the table beyond the founders
Descendants(pop) == Len(pop) - 2 * FoundersPerSex

\* C21: in a run from the synthesized initial population, after every
\* completed step the children_count of all agents sum to twice the number of
\* agents beyond the founders, and each agent reproduce appends raised the
\* count of two different agents by one.
C21_Step ==
    ReproduceStep =>
        /\ Cardinality({i \in Rows(population) : Raised(i)})
              = 2 * (Len(population') - Len(population))
        /\ \A i \in Rows(population) :
              Raised(i) \/ population'[i].children_count = population[i].children_count

C21_ChildrenCountSum ==
    /\ [](((StepDone \/ pc = "prompt") /\ population # <<>>) =>
            SumChildren(population) = 2 * Descendants(population))
    /\ [][C21_Step]_vars

\* two steps are done, each with a child of the founder couple
C21_Witness ==
    /\ StepDone
    /\ year = 2 * StepYears
    /\ Descendants(population) = 2
    /\ SumChildren(population) = 4

====
